---- MODULE Spec2Model ----
(***************************************************************************)
(* The register repository of pyuavcan.application.register:               *)
(* Repository (_repository.py) layered on SQLiteStorage (storage/sqlite.py).*)
(* The state is the `register` table of the SQLite database; every public  *)
(* Repository method is one action that runs the whole method, every       *)
(* storage statement it issues included.                                   *)
(***************************************************************************)
EXTENDS Integers, Sequences, FiniteSets, TLC

\* Longest array held by a Value in the model.
MaxLen == 1

\* Largest index, in absolute value, given to get_name_at_index.
MaxIndex == 3

(***************************************************************************)
(* Characters, names, wildcards.                                           *)
(***************************************************************************)

\* UTF-8 code of the characters the model uses (names, wildcards, strings).
Ord(c) ==
    CASE c = "!" -> 33
      [] c = "*" -> 42
      [] c = "?" -> 63
      [] c = "B" -> 66
      [] c = "[" -> 91
      [] c = "]" -> 93
      [] c = "a" -> 97
      [] c = "b" -> 98
      [] c = "x" -> 120

Alphabet == {"!", "*", "?", "B", "[", "]", "a", "b", "x"}

\* str.lower, one character.
Lower(c) ==
    CASE c = "B" -> "b"
      [] c = "E" -> "e"
      [] c = "M" -> "m"
      [] c = "O" -> "o"
      [] c = "R" -> "r"
      [] c = "Y" -> "y"
      [] OTHER -> c

Chr(b) == CHOOSE c \in Alphabet : Ord(c) = b

\* Register names the callers use.
Names == {<<"a", "b">>, <<"b">>}

\* Wildcards the callers pass to delete.
Wildcards ==
    { <<"*">>, <<"a", "*">>, <<"?">>, <<"B">>,
      <<"[", "!", "a", "]">>, <<"[", "a", "b", "]", "b">> }

(***************************************************************************)
(* Value, Entry, RelaxedValue.                                             *)
(***************************************************************************)

\* Optional[...] = None
None == [none |-> TRUE]

SeqsUpTo(S, n) == UNION {[1..k -> S] : k \in 0..n}

\* uavcan.register.Value: a tagged union; exactly one variant is populated.
Value(tag, val) == [tag |-> tag, val |-> val]

EmptyValue == Value("empty", <<>>)

Values ==
    {EmptyValue}
    \cup {Value("bit", s) : s \in SeqsUpTo(BOOLEAN, MaxLen)}
    \cup {Value("string", <<"x">>)}

\* Native (loosely typed) candidates accepted by set: a bool or a list of
\* bools (a scalar is a one-element list), and text.
NativeValues ==
    {Value("native_bool", s) : s \in SeqsUpTo(BOOLEAN, MaxLen)}
    \cup {Value("native_str", <<"x">>)}

RelaxedValues == Values \cup NativeValues

\* storage.Entry
Entry(value, mutable) == [value |-> value, mutable |-> mutable]

(***************************************************************************)
(* convert (_primitives.py).                                               *)
(***************************************************************************)

\* A native candidate as the Value it denotes.
strictify(s) ==
    CASE s.tag = "native_bool" -> Value("bit", s.val)
      [] s.tag = "native_str" -> Value("string", s.val)
      [] OTHER -> s

\* convert(to, s): the candidate coerced to the variant and array length of
\* `to`, or None.
convert(to, s) ==
    LET v == strictify(s)
    IN  IF v.tag = to.tag /\ Len(v.val) = Len(to.val) THEN v ELSE None

(***************************************************************************)
(* The DSDL codec of Value: union tag, length prefix, payload.             *)
(***************************************************************************)

RECURSIVE PackBits(_)
\* Bits packed eight to a byte, least significant bit first.
PackBits(bits) ==
    IF bits = <<>> THEN <<>>
    ELSE LET n == IF Len(bits) < 8 THEN Len(bits) ELSE 8
             RECURSIVE Byte(_)
             Byte(i) == IF i > n THEN 0
                        ELSE (IF bits[i] THEN 1 ELSE 0) + 2 * Byte(i + 1)
         IN  <<Byte(1)>> \o PackBits(SubSeq(bits, n + 1, Len(bits)))

RECURSIVE Pow2(_)
Pow2(k) == IF k = 0 THEN 1 ELSE 2 * Pow2(k - 1)

UnpackBits(bytes, n) ==
    [i \in 1..n |-> ((bytes[((i - 1) \div 8) + 1] \div Pow2((i - 1) % 8)) % 2) = 1]

TagCode(tag) ==
    CASE tag = "empty" -> 0
      [] tag = "string" -> 1
      [] tag = "bit" -> 3

\* pyuavcan.dsdl.serialize(Value)
serialize(v) ==
    CASE v.tag = "empty" -> <<TagCode("empty")>>
      [] v.tag = "string" ->
            <<TagCode("string"), Len(v.val) % 256, Len(v.val) \div 256>>
            \o [i \in 1..Len(v.val) |-> Ord(v.val[i])]
      [] v.tag = "bit" ->
            <<TagCode("bit"), Len(v.val) % 256, Len(v.val) \div 256>>
            \o PackBits(v.val)

\* pyuavcan.dsdl.deserialize(Value, blob)
deserialize(blob) ==
    IF blob = <<>> THEN None
    ELSE IF blob[1] = TagCode("empty") THEN EmptyValue
    ELSE IF Len(blob) < 3 THEN None
    ELSE LET n == blob[2] + 256 * blob[3]
             payload == SubSeq(blob, 4, Len(blob))
         IN  CASE blob[1] = TagCode("string") /\ Len(payload) >= n ->
                    Value("string", [i \in 1..n |-> Chr(payload[i])])
               [] blob[1] = TagCode("bit") /\ 8 * Len(payload) >= n ->
                    Value("bit", UnpackBits(payload, n))
               [] OTHER -> None

(***************************************************************************)
(* fnmatch.fnmatchcase and the ordering of names.                          *)
(***************************************************************************)

RECURSIVE LexLess(_, _)
\* a < b, byte by byte (SQLite's BINARY collation, Python's str order).
LexLess(a, b) ==
    IF b = <<>> THEN FALSE
    ELSE IF a = <<>> THEN TRUE
    ELSE IF Ord(Head(a)) # Ord(Head(b)) THEN Ord(Head(a)) < Ord(Head(b))
    ELSE LexLess(Tail(a), Tail(b))

RECURSIVE SortNames(_)
SortNames(S) ==
    IF S = {} THEN <<>>
    ELSE LET m == CHOOSE x \in S : \A y \in S \ {x} : LexLess(x, y)
         IN  <<m>> \o SortNames(S \ {m})

\* Index in `rest` (the pattern after a "[") of the "]" closing the
\* character class, 0 when the class is not closed.
ClassEnd(rest) ==
    LET n  == Len(rest)
        j1 == IF n >= 1 /\ rest[1] = "!" THEN 2 ELSE 1
        j2 == IF j1 <= n /\ rest[j1] = "]" THEN j1 + 1 ELSE j1
        closing == {j \in j2..n : rest[j] = "]"}
    IN  IF closing = {} THEN 0
        ELSE CHOOSE j \in closing : \A k \in closing : j <= k

RECURSIVE fnmatchcase(_, _)
\* fnmatchcase(name, pat): shell-style match of the whole name, case-sensitive.
fnmatchcase(name, pat) ==
    IF pat = <<>> THEN name = <<>>
    ELSE LET c == Head(pat)
             rest == Tail(pat)
         IN  CASE c = "*" ->
                    \/ fnmatchcase(name, rest)
                    \/ name # <<>> /\ fnmatchcase(Tail(name), pat)
               [] c = "?" -> name # <<>> /\ fnmatchcase(Tail(name), rest)
               [] c = "[" /\ ClassEnd(rest) # 0 ->
                    LET j == ClassEnd(rest)
                        negated == rest[1] = "!"
                        first == IF negated THEN 2 ELSE 1
                        stuff == {rest[i] : i \in first..(j - 1)}
                    IN  /\ name # <<>>
                        /\ (Head(name) \in stuff) # negated
                        /\ fnmatchcase(Tail(name), SubSeq(rest, j + 1, Len(rest)))
               [] OTHER -> name # <<>> /\ Head(name) = c /\ fnmatchcase(Tail(name), rest)

(***************************************************************************)
(* SQLiteStorage: the table `register`, name -> row (mutable, value blob). *)
(***************************************************************************)

\* A row of the table: the columns `mutable` (boolean, kept as 0/1) and
\* `value` (blob).
Row(e) == [mutable |-> IF e.mutable THEN 1 ELSE 0, value |-> serialize(e.value)]

SQLiteStorage_count(tbl) == Cardinality({n \in Names : tbl[n] # None})

RECURSIVE Reverse(_)
Reverse(q) == IF q = <<>> THEN <<>> ELSE Reverse(Tail(q)) \o <<Head(q)>>

\* Faulty variant: select name from register order by name desc.
SQLiteStorage_get_names_Descending(tbl) == Reverse(SortNames({n \in Names : tbl[n] # None}))

\* select name from register order by name
SQLiteStorage_get_names(tbl) == SortNames({n \in Names : tbl[n] # None})

SQLiteStorage_get(tbl, name) ==
    IF tbl[name] = None THEN None
    ELSE Entry(deserialize(tbl[name].value), tbl[name].mutable # 0)

\* self.get_names()[index], None on IndexError.  A Python list takes the
\* indices -len .. len-1: a negative index counts from the end.
\* Optional[str]: a name n is returned as [name |-> n].
SQLiteStorage_get_name_at_index(tbl, index) ==
    LET names == SQLiteStorage_get_names(tbl)
        n == Len(names)
    IN  IF 0 <= index /\ index < n THEN [name |-> names[index + 1]]
        ELSE IF -n <= index /\ index < 0 THEN [name |-> names[n + index + 1]]
        ELSE None

\* Faulty variant: insert or ignore into register (name, mutable, value)
SQLiteStorage_set_InsertOrIgnore(tbl, name, e) ==
    IF tbl[name] = None THEN [tbl EXCEPT ![name] = Row(e)] ELSE tbl

\* insert or replace into register (name, mutable, value)
SQLiteStorage_set(tbl, name, e) == [tbl EXCEPT ![name] = Row(e)]

\* delete from register where name = ?, for each of `names`
SQLiteStorage_delete(tbl, names) ==
    [n \in Names |-> IF \E i \in 1..Len(names) : names[i] = n THEN None ELSE tbl[n]]

\* The table of a database without registers.
EmptyTable == [n \in Names |-> None]

\* _LOCATION_VOLATILE
MemoryToken == <<":", "m", "e", "m", "o", "r", "y", ":">>

\* Values of the parameter `location`, as sequences of characters.
Locations ==
    { <<>>,
      MemoryToken,
      <<":", "M", "E", "M", "O", "R", "Y", ":">>,
      <<" ">>,
      <<" ">> \o MemoryToken \o <<" ">>,
      <<"r">>,
      <<"r", " ">> }

RECURSIVE LStrip(_)
LStrip(q) == IF q # <<>> /\ Head(q) = " " THEN LStrip(Tail(q)) ELSE q

\* str.strip
Strip(q) == Reverse(LStrip(Reverse(LStrip(q))))

\* self._loc = str(location or _LOCATION_VOLATILE).strip()
SQLiteStorage_loc(location) == Strip(IF location = <<>> THEN MemoryToken ELSE location)

\* self._loc.lower() != _LOCATION_VOLATILE
SQLiteStorage_persistent(location) ==
    LET l == SQLiteStorage_loc(location)
    IN  [i \in 1..Len(l) |-> Lower(l[i])] # MemoryToken

\* sqlite3.connect(self._loc): the name ":memory:", compared exactly, opens a
\* new in-memory database and the empty name a private temporary database
\* that is removed when the connection closes; any other name is the path
\* of a database file.
FileBacked(location) == SQLiteStorage_loc(location) \notin {<<>>, MemoryToken}

\* Faulty variant: the table is dropped and created anew on every open.
SQLiteStorage_init_DropsTable(location, dsk) == EmptyTable

\* __init__: connect, then `create table if not exists`.  The table the new
\* connection sees, `dsk` being the table in the file at the location.
SQLiteStorage_init(location, dsk) == IF FileBacked(location) THEN dsk ELSE EmptyTable

\* self._db.commit(): the table in the file after the statement is committed.
SQLiteStorage_commit(location, tbl, dsk) == IF FileBacked(location) THEN tbl ELSE dsk

\* Lists of names given to SQLiteStorage.delete.
NameLists == {q \in SeqsUpTo(Names, 2) : \A i, j \in 1..Len(q) : i # j => q[i] # q[j]}

(***************************************************************************)
(* Repository.  Each method is an operator from the table and its          *)
(* arguments to the outcome of the call: the table afterwards, how the     *)
(* call ended (ok or the exception raised), what it returned and how many  *)
(* times it called storage.set.  `fault` is the ordinal of the storage     *)
(* statement of this call at which the engine raises                       *)
(* sqlite3.OperationalError (0: at none).                                  *)
(***************************************************************************)

Faults == {0, 1, 2}

\* The engine executes every statement.
NoFault == {0}

Raise(tbl, ex) == [tbl |-> tbl, outcome |-> ex, ret |-> None, writes |-> 0]

Return(tbl, ret, writes) == [tbl |-> tbl, outcome |-> "ok", ret |-> ret, writes |-> writes]

Repository_keys(tbl) == SQLiteStorage_get_names(tbl)

Repository_get(tbl, name) == SQLiteStorage_get(tbl, name)

Repository_get_name_at_index(tbl, index) == SQLiteStorage_get_name_at_index(tbl, index)

\* Repository.__len__
Repository_len(tbl) == SQLiteStorage_count(tbl)

\* Faulty variant: set adds the register when it is missing.
Repository_set_Upsert(tbl, name, value, fault) ==
    LET e == SQLiteStorage_get(tbl, name)
    IN  IF e = None
        THEN Return(SQLiteStorage_set(tbl, name, Entry(strictify(value), TRUE)), None, 1)
        ELSE LET converted == convert(e.value, value)
             IN  IF converted = None THEN Raise(tbl, "ConflictError")
                 ELSE Return(SQLiteStorage_set(tbl, name, Entry(converted, e.mutable)),
                             None, 1)

\* Faulty variant: set stores the candidate without checking that it converts.
Repository_set_Unchecked(tbl, name, value, fault) ==
    LET e == SQLiteStorage_get(tbl, name)
    IN  IF e = None THEN Raise(tbl, "MissingRegisterError")
        ELSE Return(SQLiteStorage_set(tbl, name, Entry(strictify(value), e.mutable)),
                    None, 1)

\* Faulty variant: set refuses to write an immutable register.
Repository_set_HonoursMutable(tbl, name, value, fault) ==
    LET e == SQLiteStorage_get(tbl, name)
    IN  IF e = None THEN Raise(tbl, "MissingRegisterError")
        ELSE LET converted == convert(e.value, value)
             IN  IF converted = None \/ ~e.mutable THEN Raise(tbl, "ConflictError")
                 ELSE Return(SQLiteStorage_set(tbl, name, Entry(converted, e.mutable)),
                             None, 1)

Repository_set(tbl, name, value, fault) ==
    IF fault = 1 THEN Raise(tbl, "StorageError")
    ELSE LET e == SQLiteStorage_get(tbl, name)
         IN  IF e = None THEN Raise(tbl, "MissingRegisterError")
             ELSE LET converted == convert(e.value, value)
                  IN  IF converted = None THEN Raise(tbl, "ConflictError")
                      ELSE IF fault = 2 THEN Raise(tbl, "StorageError")
                      ELSE Return(SQLiteStorage_set(tbl, name, Entry(converted, e.mutable)),
                                  None, 1)

\* Faulty variant: create drops the caller's flag and stores the default, mutable.
Repository_create_DefaultFlag(tbl, name, value, mutable, fault) ==
    LET r == Repository_set(tbl, name, value, fault)
    IN  IF r.outcome = "MissingRegisterError"
        THEN Return(SQLiteStorage_set(tbl, name, Entry(value, TRUE)), None, 1)
        ELSE r

\* Faulty variant: create on an existing register stores the caller's flag.
Repository_create_FlagOverwrites(tbl, name, value, mutable, fault) ==
    LET e == SQLiteStorage_get(tbl, name)
    IN  IF e = None
        THEN Return(SQLiteStorage_set(tbl, name, Entry(value, mutable)), None, 1)
        ELSE LET converted == convert(e.value, value)
             IN  IF converted = None THEN Raise(tbl, "ConflictError")
                 ELSE Return(SQLiteStorage_set(tbl, name, Entry(converted, mutable)),
                             None, 1)

Repository_create(tbl, name, value, mutable, fault) ==
    LET r == Repository_set(tbl, name, value, fault)
    IN  IF r.outcome = "MissingRegisterError"
        THEN IF fault = 2 THEN Raise(tbl, "StorageError")
             ELSE Return(SQLiteStorage_set(tbl, name, Entry(value, mutable)), None, 1)
        ELSE r

\* Faulty variant: access writes the converted value but returns the Entry it read.
Repository_access_ReturnsStale(tbl, name, value, fault) ==
    LET e == SQLiteStorage_get(tbl, name)
    IN  IF e = None THEN Return(tbl, Entry(EmptyValue, FALSE), 0)
        ELSE LET converted == convert(e.value, value)
             IN  IF e.mutable /\ converted # None
                 THEN Return(SQLiteStorage_set(tbl, name, Entry(converted, e.mutable)), e, 1)
                 ELSE Return(tbl, e, 0)

\* Faulty variant: access does not look at the mutable flag.
Repository_access_IgnoresMutable(tbl, name, value, fault) ==
    LET e == SQLiteStorage_get(tbl, name)
    IN  IF e = None THEN Return(tbl, Entry(EmptyValue, FALSE), 0)
        ELSE LET converted == convert(e.value, value)
             IN  IF converted # None
                 THEN Return(SQLiteStorage_set(tbl, name, Entry(converted, e.mutable)),
                             Entry(converted, e.mutable), 1)
                 ELSE Return(tbl, e, 0)

\* Faulty variant: access on a missing name stores the candidate it was given.
Repository_access_CreatesMissing(tbl, name, value, fault) ==
    LET e == SQLiteStorage_get(tbl, name)
    IN  IF e = None
        THEN Return(SQLiteStorage_set(tbl, name, Entry(value, FALSE)),
                    Entry(EmptyValue, FALSE), 1)
        ELSE LET converted == convert(e.value, value)
             IN  IF e.mutable /\ converted # None
                 THEN Return(SQLiteStorage_set(tbl, name, Entry(converted, e.mutable)),
                             Entry(converted, e.mutable), 1)
                 ELSE Return(tbl, e, 0)

\* Faulty variant: access on a mutable register stores the candidate unconverted.
Repository_access_Unchecked(tbl, name, value, fault) ==
    LET e == SQLiteStorage_get(tbl, name)
    IN  IF e = None THEN Return(tbl, Entry(EmptyValue, FALSE), 0)
        ELSE IF e.mutable /\ value # EmptyValue
             THEN Return(SQLiteStorage_set(tbl, name, Entry(value, e.mutable)),
                         Entry(value, e.mutable), 1)
             ELSE Return(tbl, e, 0)

Repository_access(tbl, name, value, fault) ==
    IF fault = 1 THEN Raise(tbl, "StorageError")
    ELSE LET e == SQLiteStorage_get(tbl, name)
         IN  IF e = None THEN Return(tbl, Entry(EmptyValue, FALSE), 0)
             ELSE LET converted == convert(e.value, value)
                  IN  IF e.mutable /\ converted # None
                      THEN IF fault = 2 THEN Raise(tbl, "StorageError")
                           ELSE Return(SQLiteStorage_set(tbl, name, Entry(converted, e.mutable)),
                                       Entry(converted, e.mutable), 1)
                      ELSE Return(tbl, e, 0)

\* Faulty variant: delete matches with fnmatch on case-normalised strings.
Repository_delete_IgnoresCase(tbl, wildcard, fault) ==
    LET Fold(q) == [i \in 1..Len(q) |-> Lower(q[i])]
        Matches(n) == fnmatchcase(Fold(n), Fold(wildcard))
        names == SelectSeq(Repository_keys(tbl), Matches)
    IN  Return(SQLiteStorage_delete(tbl, names), None, 0)

Repository_delete(tbl, wildcard, fault) ==
    IF fault = 1 THEN Raise(tbl, "StorageError")
    ELSE LET Matches(n) == fnmatchcase(n, wildcard)
             names == SelectSeq(Repository_keys(tbl), Matches)
         IN  IF fault = 2 THEN Raise(tbl, "StorageError")
             ELSE Return(SQLiteStorage_delete(tbl, names), None, 0)

(***************************************************************************)
(* The methods again, split at their storage operations: what a call holds *)
(* in its local variables after its read of storage, and the write it      *)
(* makes afterwards.                                                       *)
(***************************************************************************)

\* Faulty variant: set does not test `if not e`.
Repository_set_read_Upsert(tbl, name, value) ==
    LET e == SQLiteStorage_get(tbl, name)
    IN  IF e = None
        THEN [outcome |-> "write", read |-> None, e |-> Entry(strictify(value), TRUE)]
        ELSE LET converted == convert(e.value, value)
             IN  IF converted = None
                 THEN [outcome |-> "ConflictError", read |-> e, e |-> None]
                 ELSE [outcome |-> "write", read |-> e, e |-> Entry(converted, e.mutable)]

\* set, lines 117-122, and the Entry it is about to store (line 123).
Repository_set_read(tbl, name, value) ==
    LET e == SQLiteStorage_get(tbl, name)
    IN  IF e = None
        THEN [outcome |-> "MissingRegisterError", read |-> None, e |-> None]
        ELSE LET converted == convert(e.value, value)
             IN  IF converted = None
                 THEN [outcome |-> "ConflictError", read |-> e, e |-> None]
                 ELSE [outcome |-> "write", read |-> e, e |-> Entry(converted, e.mutable)]

\* set, line 123: self._storage.set(name, Entry(converted, mutable=e.mutable))
Repository_set_write(tbl, name, e) == SQLiteStorage_set(tbl, name, e)

\* create, line 132: self._storage.set(name, Entry(value, mutable=mutable))
Repository_create_write(tbl, name, e) == SQLiteStorage_set(tbl, name, e)

\* access, lines 150-155, and the Entry it is about to store (line 156) or
\* returns without a write.
Repository_access_read(tbl, name, value) ==
    LET e == SQLiteStorage_get(tbl, name)
    IN  IF e = None
        THEN [outcome |-> "return", read |-> None, e |-> Entry(EmptyValue, FALSE)]
        ELSE LET converted == convert(e.value, value)
             IN  IF e.mutable /\ converted # None
                 THEN [outcome |-> "write", read |-> e, e |-> Entry(converted, e.mutable)]
                 ELSE [outcome |-> "return", read |-> e, e |-> e]

\* Faulty variant: the write applies only to a row that is there and mutable
\* at the time of the write.
Repository_access_write_IfMutable(tbl, name, e) ==
    IF tbl[name] # None /\ tbl[name].mutable = 1 THEN SQLiteStorage_set(tbl, name, e) ELSE tbl

\* access, line 156: self._storage.set(name, e)
Repository_access_write(tbl, name, e) == SQLiteStorage_set(tbl, name, e)

\* delete, line 172: the names read from storage that match the wildcard.
Repository_delete_read(tbl, wildcard) ==
    LET Matches(n) == fnmatchcase(n, wildcard)
    IN  SelectSeq(Repository_keys(tbl), Matches)

\* delete, line 174: self._storage.delete(names)
Repository_delete_write(tbl, names) == SQLiteStorage_delete(tbl, names)

\* The callers that share the backend.
Callers == {"p", "q"}

\* Arguments of the interleaved calls: one register of one bit.
ConcNames == {<<"b">>}

ConcValues == {Value("bit", <<FALSE>>), Value("bit", <<TRUE>>)}

ConcWildcards == {<<"*">>, <<"B">>}

NoLocal == [op |-> "none", name |-> <<>>, read |-> None, cand |-> None, e |-> None, names |-> <<>>]

NoWrite == [op |-> "none", name |-> <<>>, read |-> None, cand |-> None, prior |-> None, stored |-> None]

(***************************************************************************)
(* State and actions.                                                      *)
(***************************************************************************)

VARIABLES
    register,   \* the table `register` of the database: name -> row or None
    last,       \* the latest call: its arguments, the table before it, its outcome
    bound,      \* name -> variant, array length and flag of the create call that added it
    loc,        \* the argument `location` the storage was constructed with
    disk,       \* the committed table in the database file at the location
    opened,     \* the connection is open
    pc,         \* caller -> where the caller is: idle, or before the write of a call
    local,      \* caller -> the local variables of the call it is in
    wrote       \* the latest storage write of an interleaved call

storageVars == <<loc, disk, opened>>

callerVars == <<pc, local, wrote>>

vars == <<register, last, bound, storageVars, callerVars>>

\* What a create call that adds a register binds for the register's lifetime.
Binding(value, mutable) == [tag |-> value.tag, len |-> Len(value.val), mutable |-> mutable]

Call(op, name, value, mutable, r) ==
    [op |-> op, name |-> name, value |-> value, mutable |-> mutable,
     before |-> register, outcome |-> r.outcome, ret |-> r.ret, writes |-> r.writes]

\* SQLiteStorage(): a new in-memory database, `create table if not exists`.
Init ==
    /\ register = [n \in Names |-> None]
    /\ last = [op |-> "init", name |-> <<>>, value |-> None, mutable |-> FALSE,
               before |-> [n \in Names |-> None], outcome |-> "ok", ret |-> None,
               writes |-> 0]
    /\ bound = [n \in Names |-> None]
    /\ loc = <<>>
    /\ disk = EmptyTable
    /\ opened = TRUE
    /\ pc = [c \in Callers |-> "idle"]
    /\ local = [c \in Callers |-> NoLocal]
    /\ wrote = NoWrite

GetCall(F) ==
    \E name \in Names, fault \in F \cap {0, 1} :
        /\ last' = Call("get", name, None, FALSE,
                        IF fault = 1 THEN Raise(register, "StorageError")
                        ELSE Return(register, Repository_get(register, name), 0))
        /\ UNCHANGED <<register, bound, storageVars, callerVars>>

KeysCall(F) ==
    \E fault \in F \cap {0, 1} :
        /\ last' = Call("keys", <<>>, None, FALSE,
                        IF fault = 1 THEN Raise(register, "StorageError")
                        ELSE Return(register, Repository_keys(register), 0))
        /\ UNCHANGED <<register, bound, storageVars, callerVars>>

LenCall(F) ==
    \E fault \in F \cap {0, 1} :
        /\ last' = Call("len", <<>>, None, FALSE,
                        IF fault = 1 THEN Raise(register, "StorageError")
                        ELSE Return(register, Repository_len(register), 0))
        /\ UNCHANGED <<register, bound, storageVars, callerVars>>

GetNameAtIndexCall(F) ==
    \E index \in (-MaxIndex)..MaxIndex, fault \in F \cap {0, 1} :
        /\ last' = Call("get_name_at_index", index, None, FALSE,
                        IF fault = 1 THEN Raise(register, "StorageError")
                        ELSE Return(register, Repository_get_name_at_index(register, index), 0))
        /\ UNCHANGED <<register, bound, storageVars, callerVars>>

SetCall(F) ==
    \E name \in Names, value \in RelaxedValues, fault \in F :
        LET r == Repository_set(register, name, value, fault)
        IN  /\ register' = r.tbl
            /\ last' = Call("set", name, value, FALSE, r)
            /\ UNCHANGED <<bound, storageVars, callerVars>>

CreateCall(F) ==
    \E name \in Names, value \in Values, mutable \in BOOLEAN, fault \in F :
        LET r == Repository_create(register, name, value, mutable, fault)
        IN  /\ register' = r.tbl
            /\ last' = Call("create", name, value, mutable, r)
            /\ bound' = IF register[name] = None /\ r.outcome = "ok"
                        THEN [bound EXCEPT ![name] = Binding(value, mutable)]
                        ELSE bound
            /\ UNCHANGED <<storageVars, callerVars>>

AccessCall(F) ==
    \E name \in Names, value \in Values, fault \in F :
        LET r == Repository_access(register, name, value, fault)
        IN  /\ register' = r.tbl
            /\ last' = Call("access", name, value, FALSE, r)
            /\ UNCHANGED <<bound, storageVars, callerVars>>

DeleteCall(F) ==
    \E wildcard \in Wildcards, fault \in F :
        LET r == Repository_delete(register, wildcard, fault)
        IN  /\ register' = r.tbl
            /\ last' = Call("delete", wildcard, None, FALSE, r)
            /\ bound' = [n \in Names |-> IF r.tbl[n] = None THEN None ELSE bound[n]]
            /\ UNCHANGED <<storageVars, callerVars>>

(***************************************************************************)
(* Spec: one caller, the engine executes every statement (the in-memory    *)
(* database of the doctests).                                              *)
(***************************************************************************)

Get == GetCall(NoFault)

Set == SetCall(NoFault)

Create == CreateCall(NoFault)

Access == AccessCall(NoFault)

Delete == DeleteCall(NoFault)

Keys == KeysCall(NoFault)

LenOf == LenCall(NoFault)

GetNameAtIndex == GetNameAtIndexCall(NoFault)

Next == Get \/ Set \/ Create \/ Access \/ Delete \/ Keys \/ LenOf \/ GetNameAtIndex

Spec == Init /\ [][Next]_vars

(***************************************************************************)
(* SpecFaults: the same calls on an engine that may raise                  *)
(* sqlite3.OperationalError at any statement (a database file locked by    *)
(* another connection for longer than _TIMEOUT, a disk I/O error).         *)
(***************************************************************************)

GetFaulty == GetCall(Faults)

SetFaulty == SetCall(Faults)

CreateFaulty == CreateCall(Faults)

AccessFaulty == AccessCall(Faults)

DeleteFaulty == DeleteCall(Faults)

KeysFaulty == KeysCall(Faults)

LenFaulty == LenCall(Faults)

GetNameAtIndexFaulty == GetNameAtIndexCall(Faults)

NextFaults ==
    \/ GetFaulty \/ SetFaulty \/ CreateFaulty \/ AccessFaulty \/ DeleteFaulty
    \/ KeysFaulty \/ LenFaulty \/ GetNameAtIndexFaulty

SpecFaults == Init /\ [][NextFaults]_vars

(***************************************************************************)
(* SpecStorage: the storage backend used directly (as _unittest_memory and *)
(* _unittest_file do), constructed at any location, closed and opened      *)
(* again at the same location.                                             *)
(***************************************************************************)

InitStorage ==
    /\ loc \in Locations
    /\ register = SQLiteStorage_init(loc, EmptyTable)
    /\ last = [op |-> "init", name |-> <<>>, value |-> None, mutable |-> FALSE,
               before |-> EmptyTable, outcome |-> "ok", ret |-> None, writes |-> 0]
    /\ bound = [n \in Names |-> None]
    /\ disk = EmptyTable
    /\ opened = TRUE
    /\ pc = [c \in Callers |-> "idle"]
    /\ local = [c \in Callers |-> NoLocal]
    /\ wrote = NoWrite

StorageSet ==
    \E name \in Names, value \in Values, mutable \in BOOLEAN :
        LET tbl == SQLiteStorage_set(register, name, Entry(value, mutable))
        IN  /\ opened
            /\ register' = tbl
            /\ disk' = SQLiteStorage_commit(loc, tbl, disk)
            /\ last' = Call("storage_set", name, value, mutable, Return(tbl, None, 1))
            /\ UNCHANGED <<bound, loc, opened, callerVars>>

StorageDelete ==
    \E names \in NameLists :
        LET tbl == SQLiteStorage_delete(register, names)
        IN  /\ opened
            /\ register' = tbl
            /\ disk' = SQLiteStorage_commit(loc, tbl, disk)
            /\ last' = Call("storage_delete", names, None, FALSE, Return(tbl, None, 0))
            /\ UNCHANGED <<bound, loc, opened, callerVars>>

\* close(): the connection is gone; what was committed to a file stays.
StorageClose ==
    /\ opened
    /\ opened' = FALSE
    /\ register' = EmptyTable
    /\ last' = Call("close", <<>>, None, FALSE, Return(EmptyTable, None, 0))
    /\ UNCHANGED <<bound, loc, disk, callerVars>>

\* SQLiteStorage(location) once more, at the same location.  The record of
\* the call keeps, as `before`, the table the closed connection held.
StorageOpen ==
    /\ ~opened
    /\ opened' = TRUE
    /\ register' = SQLiteStorage_init(loc, disk)
    /\ last' = [Call("open", <<>>, None, FALSE, Return(register', None, 0))
                   EXCEPT !.before = last.before]
    /\ UNCHANGED <<bound, loc, disk, callerVars>>

NextStorage == StorageSet \/ StorageDelete \/ StorageClose \/ StorageOpen

SpecStorage == InitStorage /\ [][NextStorage]_vars

(***************************************************************************)
(* SpecConc: two callers use one Repository over the in-memory backend;    *)
(* their calls interleave between the storage operations of a method.      *)
(* Nothing in Repository or SQLiteStorage takes a lock across a method.    *)
(***************************************************************************)

Enter(c, label, op, name, value, r) ==
    /\ pc' = [pc EXCEPT ![c] = label]
    /\ local' = [local EXCEPT ![c] = [op |-> op, name |-> name, read |-> r.read,
                                      cand |-> value, e |-> r.e, names |-> <<>>]]

Leave(c) ==
    /\ pc' = [pc EXCEPT ![c] = "idle"]
    /\ local' = [local EXCEPT ![c] = NoLocal]

Wrote(c, tbl) ==
    [op |-> local[c].op, name |-> local[c].name, read |-> local[c].read,
     cand |-> local[c].cand, prior |-> SQLiteStorage_get(register, local[c].name),
     stored |-> SQLiteStorage_get(tbl, local[c].name)]

ConcSetRead ==
    \E c \in Callers, name \in ConcNames, value \in ConcValues :
        LET r == Repository_set_read(register, name, value)
        IN  /\ pc[c] = "idle"
            /\ IF r.outcome = "write" THEN Enter(c, "set_write", "set", name, value, r)
               ELSE UNCHANGED <<pc, local>>
            /\ UNCHANGED <<register, wrote, last, bound, storageVars>>

ConcSetWrite ==
    \E c \in Callers :
        LET tbl == Repository_set_write(register, local[c].name, local[c].e)
        IN  /\ pc[c] = "set_write"
            /\ register' = tbl
            /\ wrote' = Wrote(c, tbl)
            /\ Leave(c)
            /\ UNCHANGED <<last, bound, storageVars>>

ConcCreateRead ==
    \E c \in Callers, name \in ConcNames, value \in ConcValues, mutable \in BOOLEAN :
        LET r == Repository_set_read(register, name, value)
        IN  /\ pc[c] = "idle"
            /\ IF r.outcome = "write" THEN Enter(c, "set_write", "create", name, value, r)
               ELSE IF r.outcome = "MissingRegisterError"
               THEN Enter(c, "create_write", "create", name, value,
                          [read |-> None, e |-> Entry(value, mutable)])
               ELSE UNCHANGED <<pc, local>>
            /\ UNCHANGED <<register, wrote, last, bound, storageVars>>

ConcCreateWrite ==
    \E c \in Callers :
        LET tbl == Repository_create_write(register, local[c].name, local[c].e)
        IN  /\ pc[c] = "create_write"
            /\ register' = tbl
            /\ wrote' = Wrote(c, tbl)
            /\ Leave(c)
            /\ UNCHANGED <<last, bound, storageVars>>

ConcAccessRead ==
    \E c \in Callers, name \in ConcNames, value \in ConcValues :
        LET r == Repository_access_read(register, name, value)
        IN  /\ pc[c] = "idle"
            /\ IF r.outcome = "write" THEN Enter(c, "access_write", "access", name, value, r)
               ELSE UNCHANGED <<pc, local>>
            /\ UNCHANGED <<register, wrote, last, bound, storageVars>>

ConcAccessWrite ==
    \E c \in Callers :
        LET tbl == Repository_access_write(register, local[c].name, local[c].e)
        IN  /\ pc[c] = "access_write"
            /\ register' = tbl
            /\ wrote' = Wrote(c, tbl)
            /\ Leave(c)
            /\ UNCHANGED <<last, bound, storageVars>>

ConcDeleteRead ==
    \E c \in Callers, wildcard \in ConcWildcards :
        /\ pc[c] = "idle"
        /\ pc' = [pc EXCEPT ![c] = "delete_write"]
        /\ local' = [local EXCEPT ![c] = [NoLocal EXCEPT !.op = "delete",
                          !.names = Repository_delete_read(register, wildcard)]]
        /\ UNCHANGED <<register, wrote, last, bound, storageVars>>

ConcDeleteWrite ==
    \E c \in Callers :
        /\ pc[c] = "delete_write"
        /\ register' = Repository_delete_write(register, local[c].names)
        /\ wrote' = [NoWrite EXCEPT !.op = "delete"]
        /\ Leave(c)
        /\ UNCHANGED <<last, bound, storageVars>>

NextConc ==
    \/ ConcSetRead \/ ConcSetWrite \/ ConcCreateRead \/ ConcCreateWrite
    \/ ConcAccessRead \/ ConcAccessWrite \/ ConcDeleteRead \/ ConcDeleteWrite

SpecConc == Init /\ [][NextConc]_vars

(***************************************************************************)
(* The call just made, as the properties below read it.                    *)
(***************************************************************************)

\* The Entry stored under the call's name before the call, None if absent.
Pre == SQLiteStorage_get(last.before, last.name)

\* What get(name) returns immediately after the call.
Now == Repository_get(register, last.name)

\* The candidate's variant or array length differs from the existing value's.
Mismatch(existing, candidate) ==
    \/ strictify(candidate).tag # existing.tag
    \/ Len(strictify(candidate).val) # Len(existing.val)

(***************************************************************************)
(* Properties of access, set and create.                                   *)
(***************************************************************************)

\* C1: access on an existing mutable register: when the candidate converts,
\* the converted value is stored under the name and returned; when it does
\* not (other variant, other array length, empty candidate), the existing
\* Entry is returned and storage is not written.
C1_AccessMutable ==
    (last.op = "access" /\ Pre # None /\ Pre.mutable) =>
        LET converted == convert(Pre.value, last.value)
        IN  /\ last.outcome = "ok"
            /\ IF converted # None
               THEN /\ last.ret = Entry(converted, TRUE)
                    /\ Now = Entry(converted, TRUE)
                    /\ \A n \in Names \ {last.name} : register[n] = last.before[n]
               ELSE /\ last.ret = Pre
                    /\ last.writes = 0
                    /\ register = last.before

\* A write access that changed the stored value of a mutable register.
C1_Witness ==
    /\ last.op = "access" /\ Pre # None /\ Pre.mutable
    /\ convert(Pre.value, last.value) # None
    /\ last.ret.value # Pre.value
    /\ Now = last.ret

\* C2: access on an existing immutable register returns the existing Entry
\* and leaves storage unchanged, for every candidate.
C2_AccessImmutable ==
    (last.op = "access" /\ Pre # None /\ ~Pre.mutable) =>
        /\ last.outcome = "ok"
        /\ last.ret = Pre
        /\ last.writes = 0
        /\ register = last.before

\* An access to an immutable register with a candidate that converts and
\* differs from the stored value.
C2_Witness ==
    /\ last.op = "access" /\ Pre # None /\ ~Pre.mutable
    /\ convert(Pre.value, last.value) # None
    /\ last.value # Pre.value
    /\ last.ret = Pre

\* C3: access on a name that is not in storage returns an empty, immutable
\* Entry and mutates nothing: names, Entries and count() stay the same.
C3_AccessMissing ==
    (last.op = "access" /\ Pre = None) =>
        /\ last.outcome = "ok"
        /\ last.ret = Entry(EmptyValue, FALSE)
        /\ last.writes = 0
        /\ register = last.before
        /\ SQLiteStorage_get_names(register) = SQLiteStorage_get_names(last.before)
        /\ SQLiteStorage_count(register) = SQLiteStorage_count(last.before)

\* An access with a non-empty candidate to a missing name, another
\* register being present.
C3_Witness ==
    /\ last.op = "access" /\ Pre = None
    /\ last.value # EmptyValue
    /\ SQLiteStorage_count(register) > 0
    /\ last.ret = Entry(EmptyValue, FALSE)

\* C4: set on a name that is not in storage fails with MissingRegisterError
\* and leaves storage unchanged, for every candidate.
C4_SetMissing ==
    (last.op = "set" /\ Pre = None) =>
        /\ last.outcome = "MissingRegisterError"
        /\ last.writes = 0
        /\ register = last.before

\* A set on a missing name, another register being present.
C4_Witness ==
    /\ last.op = "set" /\ Pre = None
    /\ SQLiteStorage_count(register) > 0
    /\ last.outcome = "MissingRegisterError"

\* C5: set, and create on an existing name, with a candidate of another
\* variant or another array length than the existing value fail with
\* ConflictError and leave the stored Entry unchanged.
C5_Conflict ==
    (last.op \in {"set", "create"} /\ Pre # None /\ Mismatch(Pre.value, last.value)) =>
        /\ last.outcome = "ConflictError"
        /\ last.writes = 0
        /\ Now = Pre
        /\ register = last.before

\* A create on an existing register with a value of the same variant and
\* another array length.
C5_Witness ==
    /\ last.op = "create" /\ Pre # None
    /\ last.value.tag = Pre.value.tag
    /\ Len(last.value.val) # Len(Pre.value.val)
    /\ last.outcome = "ConflictError"

\* C6, as claimed: after every call create(name, value, mutable), in any
\* reachable state, get(name) returns an Entry equal to (value, mutable).
C6_CreateThenGet_Claimed ==
    last.op = "create" => Now = Entry(last.value, last.mutable)

\* C6, amended: after create(name, value, mutable) on a name that is not in
\* storage, get(name) returns an Entry equal to (value, mutable).
C6_CreateAbsentThenGet ==
    (last.op = "create" /\ Pre = None) =>
        /\ last.outcome = "ok"
        /\ Now = Entry(last.value, last.mutable)
        /\ \A n \in Names \ {last.name} : register[n] = last.before[n]

\* A create of an immutable, non-empty register under a name that was not
\* in storage.
C6_Witness ==
    /\ last.op = "create" /\ Pre = None
    /\ ~last.mutable
    /\ last.value.val # <<>>
    /\ Now = Entry(last.value, FALSE)

\* C7: access never raises, in any state of the repository and its backend:
\* every call ends by returning an Entry.
C7_AccessNeverRaises ==
    last.op = "access" => (last.outcome = "ok" /\ last.ret # None)

\* C8: the mutable flag is fixed at creation: the stored flag of every
\* register is the flag given to the create call that added it, through any
\* sequence of set, create and access calls; create on an existing name
\* ignores its flag argument.
C8_MutableFixed ==
    /\ \A n \in Names :
           register[n] # None =>
               /\ bound[n] # None
               /\ Repository_get(register, n).mutable = bound[n].mutable
    /\ (last.op \in {"set", "create", "access"} /\ Pre # None) =>
           Now.mutable = Pre.mutable

\* A create that succeeded on an existing register and was given the other
\* flag than the stored one.
C8_Witness ==
    /\ last.op = "create" /\ Pre # None
    /\ last.outcome = "ok"
    /\ last.mutable # Pre.mutable
    /\ Now.value # Pre.value

\* C9: the stored value of every register has the variant and the array
\* length of the value given to the create call that added it; a write with
\* another variant or length is rejected: ConflictError from set and create,
\* the read-only outcome from access.
C9_TypeShapeBound ==
    /\ \A n \in Names :
           register[n] # None =>
               /\ bound[n] # None
               /\ Repository_get(register, n).value.tag = bound[n].tag
               /\ Len(Repository_get(register, n).value.val) = bound[n].len
    /\ (last.op \in {"set", "create"} /\ Pre # None /\ Mismatch(Pre.value, last.value)) =>
           (last.outcome = "ConflictError" /\ register = last.before)
    /\ (last.op = "access" /\ Pre # None /\ Mismatch(Pre.value, last.value)) =>
           (last.ret = Pre /\ register = last.before)

\* A mutable register whose value was written since its creation and which
\* has just turned down an access with a candidate of another array length.
C9_Witness ==
    /\ last.op = "access" /\ Pre # None /\ Pre.mutable
    /\ last.value.tag = Pre.value.tag
    /\ Len(last.value.val) # Len(Pre.value.val)
    /\ Pre.value.val # <<>>
    /\ last.ret = Pre

\* C10: set on an existing register with a candidate that converts replaces
\* the stored value by the converted value, mutable or not, keeps the flag,
\* and get(name) afterwards returns the converted value.
C10_SetIgnoresMutable ==
    (last.op = "set" /\ Pre # None /\ convert(Pre.value, last.value) # None) =>
        /\ last.outcome = "ok"
        /\ last.writes = 1
        /\ Now = Entry(convert(Pre.value, last.value), Pre.mutable)
        /\ \A n \in Names \ {last.name} : register[n] = last.before[n]

\* A set that changed the value of an immutable register.
C10_Witness ==
    /\ last.op = "set" /\ Pre # None /\ ~Pre.mutable
    /\ last.outcome = "ok"
    /\ Now.value # Pre.value

(***************************************************************************)
(* Properties of delete, keys, get_name_at_index.                          *)
(***************************************************************************)

\* The names of Names that each wildcard of Wildcards matches under the
\* case-sensitive shell rules, written out.
ShellMatches(w) ==
    CASE w = <<"*">> -> {<<"a", "b">>, <<"b">>}
      [] w = <<"a", "*">> -> {<<"a", "b">>}
      [] w = <<"?">> -> {<<"b">>}
      [] w = <<"B">> -> {}
      [] w = <<"[", "!", "a", "]">> -> {<<"b">>}
      [] w = <<"[", "a", "b", "]", "b">> -> {<<"a", "b">>}

\* C11: delete(wildcard) removes exactly the registers whose names match
\* the wildcard (case-sensitive shell rules) among the keys present at the
\* call and leaves every other register untouched; no match, no change, no
\* error.
C11_DeleteExact ==
    last.op = "delete" =>
        /\ last.outcome = "ok"
        /\ \A n \in Names :
               register[n] = IF n \in ShellMatches(last.name) THEN None ELSE last.before[n]
        /\ (\A n \in Names : last.before[n] # None => n \notin ShellMatches(last.name))
               => register = last.before

\* delete("a*") with both registers present removed "ab" and kept "b".
C11_Witness ==
    /\ last.op = "delete" /\ last.name = <<"a", "*">>
    /\ \A n \in Names : last.before[n] # None
    /\ register[<<"a", "b">>] = None
    /\ register[<<"b">>] = last.before[<<"b">>]

\* C12: keys() (and iteration) yields every stored name exactly once, in
\* ascending lexicographic order, whatever the order of creation and
\* deletion, and len(repository) is the number of names yielded.
C12_KeysSorted ==
    LET keys == Repository_keys(register)
    IN  /\ {keys[i] : i \in 1..Len(keys)} = {n \in Names : register[n] # None}
        /\ \A i, j \in 1..Len(keys) : i < j => LexLess(keys[i], keys[j])
        /\ Repository_len(register) = Len(keys)
        /\ (\A n \in Names : register[n] # None) => keys = << <<"a", "b">>, <<"b">> >>
        /\ last.op = "keys" => last.ret = keys
        /\ last.op = "len" => last.ret = Len(keys)

\* "ab" has just been created while "b" was already stored: the later
\* register comes first.
C12_Witness ==
    /\ last.op = "create" /\ last.name = <<"a", "b">> /\ Pre = None
    /\ last.before[<<"b">>] # None
    /\ Repository_keys(register) = << <<"a", "b">>, <<"b">> >>
    /\ Repository_len(register) = 2

\* C15: get_name_at_index(index) returns the name at position index of
\* get_names() when 0 <= index < count(), and None for every other integer.
C15_NameAtIndex ==
    last.op = "get_name_at_index" =>
        LET names == SQLiteStorage_get_names(last.before)
        IN  last.ret = IF 0 <= last.name /\ last.name < SQLiteStorage_count(last.before)
                       THEN [name |-> names[last.name + 1]]
                       ELSE None

\* C16, as claimed: set, create and access never pass an Empty stored value
\* to convert, and an Empty value returned by access means that no register
\* of that name exists.
C16_NoEmptyExisting_Claimed ==
    /\ (last.op \in {"set", "create", "access"} /\ Pre # None) => Pre.value.tag # "empty"
    /\ (last.op = "access" /\ last.ret.value.tag = "empty") => Pre = None

\* C16, amended: a stored value is Empty exactly when the register was
\* created with an Empty value, so convert receives an Empty existing value
\* only for such a register; an Empty value returned by access means that
\* the name is absent or that the register was created Empty.
C16_EmptyOnlyIfCreatedEmpty ==
    /\ \A n \in Names :
           register[n] # None =>
               (Repository_get(register, n).value.tag = "empty" <=> bound[n].tag = "empty")
    /\ (last.op \in {"set", "create", "access"} /\ Pre # None /\ Pre.value.tag = "empty")
           => bound[last.name].tag = "empty"
    /\ (last.op = "access" /\ last.ret.value.tag = "empty")
           => (Pre = None \/ bound[last.name].tag = "empty")

\* An access to an existing register that was created with Value(): convert
\* got the Empty stored value and access returned an Empty value.
C16_Witness ==
    /\ last.op = "access" /\ Pre # None
    /\ Pre.value = EmptyValue
    /\ last.ret.value = EmptyValue
    /\ bound[last.name].tag = "empty"

\* C19: with one caller, the Entry access returns for an existing register
\* is the Entry get(name) returns right after the call, in all three
\* outcomes (written, conversion failed, immutable).
C19_AccessAgreesWithGet ==
    (last.op = "access" /\ Pre # None) => (last.outcome = "ok" /\ last.ret = Now)

\* An access that wrote: its local Entry differs from the one it read and
\* is what storage holds.
C19_Witness ==
    /\ last.op = "access" /\ Pre # None
    /\ last.writes = 1
    /\ last.ret # Pre
    /\ last.ret = Now

(***************************************************************************)
(* Properties of the storage backend.                                      *)
(***************************************************************************)

\* C14: for a storage opened at a file location, after close() and a new
\* SQLiteStorage at the same location, count() is the same and get(name)
\* returns the same (value, mutable) pair for every name.
C14_ReopenKeepsRegisters ==
    (last.op = "open" /\ FileBacked(loc)) =>
        /\ SQLiteStorage_count(register) = SQLiteStorage_count(last.before)
        /\ \A n \in Names : SQLiteStorage_get(register, n) = SQLiteStorage_get(last.before, n)

\* Reopened a database file that holds a mutable and an immutable register.
C14_Witness ==
    /\ last.op = "open" /\ FileBacked(loc)
    /\ SQLiteStorage_count(register) = 2
    /\ \E n, m \in Names :
           /\ SQLiteStorage_get(register, n).mutable
           /\ ~SQLiteStorage_get(register, m).mutable
           /\ SQLiteStorage_get(register, n).value # SQLiteStorage_get(register, m).value
    /\ register = last.before

\* C17: SQLiteStorage.set(name, entry) adds the register when the name is
\* absent (count() grows by one) and replaces value and flag when it is
\* present (count() unchanged); get(name) afterwards returns exactly entry,
\* every other register is unchanged, and nothing is converted or checked.
C17_StorageSetUpsert ==
    last.op = "storage_set" =>
        /\ last.outcome = "ok"
        /\ SQLiteStorage_get(register, last.name) = Entry(last.value, last.mutable)
        /\ \A n \in Names \ {last.name} : register[n] = last.before[n]
        /\ SQLiteStorage_count(register) =
               SQLiteStorage_count(last.before) + (IF last.before[last.name] = None THEN 1 ELSE 0)

\* A set that replaced a register by a value of another variant and the
\* other flag.
C17_Witness ==
    /\ last.op = "storage_set" /\ Pre # None
    /\ Pre.value.tag # last.value.tag
    /\ Pre.mutable # last.mutable
    /\ SQLiteStorage_get(register, last.name) = Entry(last.value, last.mutable)
    /\ SQLiteStorage_count(register) = SQLiteStorage_count(last.before)

\* C18: `persistent` is true exactly when the stored data survives close
\* and reopen at the location; the empty location and the in-memory token
\* are volatile, every other location is a path and keeps the data.
C18_PersistentIffSurvives ==
    (last.op = "open" /\ last.before # EmptyTable) =>
        /\ SQLiteStorage_persistent(loc) <=> (register = last.before)
        /\ loc \in {<<>>, MemoryToken} => ~SQLiteStorage_persistent(loc)
        /\ loc \notin {<<>>, MemoryToken} =>
               (SQLiteStorage_persistent(loc) /\ register = last.before)

(***************************************************************************)
(* Properties of interleaved calls.                                        *)
(***************************************************************************)

\* C13: access is a storage read followed by a separate conditional write;
\* whatever the other caller stored in between, access's write stores the
\* value converted against the Entry access read, with the flag it read.
C13_AccessWritesFromItsRead ==
    wrote.op = "access" =>
        /\ wrote.read # None
        /\ wrote.read.mutable
        /\ wrote.stored = Entry(convert(wrote.read.value, wrote.cand), wrote.read.mutable)

\* A lost update: when access wrote, storage held another value than the
\* one access had read, stored by the other caller, and access replaced it.
C13_Witness ==
    /\ wrote.op = "access"
    /\ wrote.prior # None
    /\ wrote.prior.value # wrote.read.value
    /\ wrote.stored.value # wrote.prior.value

\* C20, as claimed: under interleaving set and access never add a name to
\* storage; a register removed by a delete stays absent until a create.
C20_SetAccessNeverAdd_Claimed ==
    wrote.op \in {"set", "access"} => wrote.prior # None

\* C20, amended: set and access write only a name that was present when the
\* call read storage, and their write is an upsert: the register is present
\* after it even if a delete removed it between the read and the write.
C20_SetAccessWriteWhatTheyRead ==
    wrote.op \in {"set", "access"} =>
        /\ wrote.read # None
        /\ wrote.stored # None
        /\ wrote.stored.mutable = wrote.read.mutable

\* A set that read the register, lost it to the other caller's delete and
\* added it back.
C20_Witness ==
    /\ wrote.op = "set"
    /\ wrote.read # None
    /\ wrote.prior = None
    /\ wrote.stored # None

====
